---- MODULE Spec2Model ----
(***************************************************************************)
(* Raw materials optimization (raw_materials_optimization.py).             *)
(*                                                                         *)
(* The script builds a linear program with PuLP (one non-negative quantity *)
(* per ingredient, a cost objective, a total-mass equality and one         *)
(* inequality per nutrient constraint), solves it and prints the result;   *)
(* sensitivity_analysis repeats the solve over a list of protein levels.   *)
(*                                                                         *)
(* Quantities and costs are exact rationals <<num, den>> here (the solver  *)
(* works in floating point; the tolerance of the solver is 0 in the        *)
(* model).  Nutrient contents per gram and costs per gram are integers.    *)
(***************************************************************************)
EXTENDS Integers, Sequences, FiniteSets, TLC

----------------------------------------------------------------------------
(* Bounds of the checked instances.                                        *)

\* protein content per gram ranges over 0..MaxContent
MaxContent == 2
\* the largest limit of a constraint handed to optimize_recipe directly
MaxLimit == 11

----------------------------------------------------------------------------
(* Exact arithmetic.                                                       *)

Abs(n) == IF n < 0 THEN -n ELSE n

RECURSIVE GCD(_, _)
GCD(m, n) == IF n = 0 THEN m ELSE GCD(n, m % n)

\* the rational n/d (d # 0) in lowest terms with a positive denominator
Rat(n, d) ==
    LET g == GCD(Abs(n), Abs(d))
        s == IF d < 0 THEN -1 ELSE 1
    IN  << (s * n) \div g, (s * d) \div g >>

RatInt(n) == << n, 1 >>

RatLeq(p, q) == p[1] * q[2] <= q[1] * p[2]

RatLess(p, q) == p[1] * q[2] < q[1] * p[2]

RatAdd(p, q) == Rat(p[1] * q[2] + q[1] * p[2], p[2] * q[2])

\* the rational p times the integer n
RatScale(p, n) == Rat(p[1] * n, p[2])

RECURSIVE RatSum(_)
RatSum(s) == IF s = << >> THEN RatInt(0) ELSE RatAdd(s[1], RatSum(Tail(s)))

----------------------------------------------------------------------------
(* PuLP status codes and their names (the LpStatus mapping the script      *)
(* prints from).                                                           *)

LpStatusOptimal == 1
LpStatusNotSolved == 0
LpStatusInfeasible == -1
LpStatusUnbounded == -2
LpStatusUndefined == -3

LpStatus ==
    [s \in {LpStatusOptimal, LpStatusNotSolved, LpStatusInfeasible,
            LpStatusUnbounded, LpStatusUndefined} |->
        CASE s = LpStatusOptimal    -> "Optimal"
          [] s = LpStatusNotSolved  -> "Not Solved"
          [] s = LpStatusInfeasible -> "Infeasible"
          [] s = LpStatusUnbounded  -> "Unbounded"
          [] OTHER                  -> "Undefined"]

----------------------------------------------------------------------------
(* The linear program solved by model.solve().                             *)
(*                                                                         *)
(* An LpProblem is [vars, objective, constraints]: vars a sequence of at   *)
(* most three variable names, each with lowBound 0; objective a function   *)
(* from the names to integer coefficients; constraints a sequence of       *)
(* [coef, sense, rhs] with sense one of "==", ">=", "<=".                  *)
(* The solver is an external routine; it is modelled by what it returns:   *)
(* Infeasible when no point satisfies the rows, Unbounded when the         *)
(* objective decreases without limit along a ray of the feasible region,   *)
(* otherwise Optimal with a vertex of least cost.  The feasible region     *)
(* lies in the non-negative orthant, so it has a vertex when it is not     *)
(* empty, and vertices and extreme rays are found by enumeration.  Which   *)
(* of several vertices of least cost the solver returns is its own affair; *)
(* the model fixes one.  A problem without variables is solved like any    *)
(* other: it is Optimal when its constant rows hold and Infeasible when    *)
(* they do not.                                                            *)

Slots == 1..3

Range(s) == { s[k] : k \in 1..Len(s) }

\* coefficient of slot k in the coefficient function f over vars
SlotCoef(vars, f, k) == IF k <= Len(vars) THEN f[vars[k]] ELSE 0

Unit(k) == [j \in Slots |-> IF j = k THEN 1 ELSE 0]

\* the rows of the problem over three slots: the bounds of the variables
\* (lowBound 0; a slot without a variable is fixed at 0), then the
\* constraints in the order they were added
Rows(lp) ==
    [k \in Slots |->
        [a |-> Unit(k),
         sense |-> IF k <= Len(lp.vars) THEN ">=" ELSE "==",
         b |-> 0]]
    \o
    [i \in 1..Len(lp.constraints) |->
        [a |-> [k \in Slots |-> SlotCoef(lp.vars, lp.constraints[i].coef, k)],
         sense |-> lp.constraints[i].sense,
         b |-> lp.constraints[i].rhs]]

Dot(u, v) == u[1] * v[1] + u[2] * v[2] + u[3] * v[3]

Cross(u, v) ==
    << u[2] * v[3] - u[3] * v[2],
       u[3] * v[1] - u[1] * v[3],
       u[1] * v[2] - u[2] * v[1] >>

Det3(u, v, w) == Dot(u, Cross(v, w))

\* lhs sense rhs
Holds(lhs, sense, rhs) ==
    CASE sense = ">=" -> lhs >= rhs
      [] sense = "<=" -> lhs <= rhs
      [] OTHER        -> lhs = rhs

\* The point where rows i, j, k meet, as <<n1, n2, n3, d>> with d > 0 and
\* x = n/d (Cramer's rule); <<0, 0, 0, 0>> when the rows are dependent.
Meet(rows, i, j, k) ==
    LET r1 == rows[i]
        r2 == rows[j]
        r3 == rows[k]
        col(m) == << r1.a[m], r2.a[m], r3.a[m] >>
        rhs == << r1.b, r2.b, r3.b >>
        d  == Det3(col(1), col(2), col(3))
        n1 == Det3(rhs, col(2), col(3))
        n2 == Det3(col(1), rhs, col(3))
        n3 == Det3(col(1), col(2), rhs)
        s  == IF d < 0 THEN -1 ELSE 1
    IN  << s * n1, s * n2, s * n3, s * d >>

\* the point p = <<n1, n2, n3, d>> satisfies every row
Feasible(rows, p) ==
    /\ p[4] > 0
    /\ \A r \in 1..Len(rows) :
          Holds(rows[r].a[1] * p[1] + rows[r].a[2] * p[2] + rows[r].a[3] * p[3],
                rows[r].sense, rows[r].b * p[4])

\* the most rows a problem has: three bounds, the total weight and one row
\* per nutrient
MaxRows == 4 + Len(<< "Protein", "Fat", "Fibre", "Salt", "Sugar" >>)

\* the choices of two and of three rows among the first n
Pairs ==
    [n \in 0..MaxRows |-> { u \in (1..n) \X (1..n) : u[1] < u[2] }]

Triples ==
    [n \in 0..MaxRows |->
        { u \in (1..n) \X (1..n) \X (1..n) : u[1] < u[2] /\ u[2] < u[3] }]

\* the vertices of the feasible region, each as three rationals
Vertices(rows) ==
    LET n == Len(rows)
        pts == { Meet(rows, t[1], t[2], t[3]) : t \in Triples[n] }
    IN  { << Rat(p[1], p[4]), Rat(p[2], p[4]), Rat(p[3], p[4]) >> :
            p \in { q \in pts : Feasible(rows, q) } }

\* the directions d # 0 along which the feasible region is unbounded, up to
\* scaling: the extreme rays of its recession cone
Rays(rows) ==
    LET n == Len(rows)
        cand == UNION { { Cross(rows[t[1]].a, rows[t[2]].a),
                          Cross(rows[t[2]].a, rows[t[1]].a) } :
                        t \in Pairs[n] }
    IN  { d \in cand :
            /\ d # << 0, 0, 0 >>
            /\ \A r \in 1..Len(rows) : Holds(Dot(rows[r].a, d), rows[r].sense, 0) }

\* value of the linear function with integer slot coefficients c at the
\* rational point x
RatDot(c, x) ==
    LET den == x[1][2] * x[2][2] * x[3][2]
        num == c[1] * x[1][1] * x[2][2] * x[3][2]
             + c[2] * x[2][1] * x[1][2] * x[3][2]
             + c[3] * x[3][1] * x[1][2] * x[2][2]
    IN  Rat(num, den)

\* no number: the objective or a value of a problem that has no optimum
Undefined == << 0, 0 >>

\* float('inf')
Inf == << 1, 0 >>

\* model.solve(): [status, objective, varValue]
Solve(lp) ==
    LET rows == Rows(lp)
        c    == [k \in Slots |-> SlotCoef(lp.vars, lp.objective, k)]
        vs   == Vertices(rows)
        val  == [v \in vs |-> RatDot(c, v)]
        best == CHOOSE v \in vs : \A w \in vs : RatLeq(val[v], val[w])
    IN  IF vs = {}
        THEN [status |-> LpStatusInfeasible, objective |-> Undefined,
              varValue |-> [v \in Range(lp.vars) |-> Undefined]]
        ELSE IF \E d \in Rays(rows) : Dot(c, d) < 0
        THEN [status |-> LpStatusUnbounded, objective |-> Undefined,
              varValue |-> [v \in Range(lp.vars) |-> Undefined]]
        ELSE [status |-> LpStatusOptimal,
              objective |-> val[best],
              varValue |-> [v \in Range(lp.vars) |->
                              best[CHOOSE k \in 1..Len(lp.vars) : lp.vars[k] = v]]]

----------------------------------------------------------------------------
(* The data: the nutrition table (a DataFrame: index = ingredients,        *)
(* columns = nutrients) and the cost mapping.                              *)

Nutrients == << "Protein", "Fat", "Fibre", "Salt", "Sugar" >>

\* the value None of the parameter constraints
None == [None |-> << "", 0 >>]

\* no LpProblem
NoModel == [vars |-> << >>, objective |-> << >>, constraints |-> << >>]

\* the tables of the checked instances: up to three ingredients, the
\* columns Protein or Protein and Fat
TableShapes ==
    { << << >>, {"Protein"} >>,
      << << "a" >>, {"Protein"} >>,
      << << "a", "b" >>, {"Protein"} >>,
      << << "a", "b" >>, {"Protein", "Fat"} >>,
      << << "a", "b", "c" >>, {"Protein"} >> }

\* the contents per gram of a column
Contents(n) == IF n = "Protein" THEN 0..MaxContent ELSE 0..1

\* the rows of a table with these columns
TableRows(columns) ==
    { r \in [columns -> 0..MaxContent] : \A n \in columns : r[n] \in Contents(n) }

\* The tables of a shape.  A table of three ingredients lists them by
\* protein content: any other is one of these with the ingredients renamed,
\* and the full cost mappings range over every assignment of costs to the
\* names.
NutritionTables ==
    UNION { { [index |-> sh[1], columns |-> sh[2], loc |-> f] :
                f \in { g \in [Range(sh[1]) -> TableRows(sh[2])] :
                          Len(sh[1]) = 3 =>
                              \A k \in 1..2 :
                                  g[sh[1][k]]["Protein"] <= g[sh[1][k + 1]]["Protein"] } } :
            sh \in TableShapes }

CostValues == { -1, 2, 3 }

\* cost mappings for the ingredients of index: every ingredient priced, or
\* the last one without an entry
CostMappings(index) ==
    [Range(index) -> CostValues]
    \cup (IF index = << >> THEN {}
          ELSE { [g \in Range(SubSeq(index, 1, Len(index) - 1)) |-> 2] })

----------------------------------------------------------------------------
(* The program.                                                            *)
(*                                                                         *)
(* nutrition and dict_costs are the data main loads.  From "start" either  *)
(* main runs (optimize_recipe with the defaults, display_results, then the *)
(* sweep of sensitivity_analysis) or optimize_recipe is called once with   *)
(* arguments of the caller's choice.                                       *)

VARIABLES
    nutrition,    \* the nutrition table
    dict_costs,   \* the cost mapping
    pc,           \* where the program is
    log,          \* the calls of optimize_recipe so far, with their outcomes
    level,            \* sensitivity_analysis: index of the next protein level
    results,      \* sensitivity_analysis: the rows printed so far
    shown         \* display_results: what it printed and what it read

vars == << nutrition, dict_costs, pc, log, level, results, shown >>

----------------------------------------------------------------------------
(* optimize_recipe                                                         *)

default_bar_weight == 100

\* the mapping built when constraints is None
DefaultConstraints ==
    [n \in Range(Nutrients) |->
        CASE n = "Protein" -> << ">=", 22 >>
          [] n = "Fat"     -> << "<=", 22 >>
          [] n = "Fibre"   -> << ">=", 6 >>
          [] n = "Salt"    -> << "<=", 3 >>
          [] OTHER         -> << "<=", 20 >>]

\* one mapping shared by the calls: a call without a mapping works with the
\* one the latest call with a mapping left behind
EffectiveShared(constraints) ==
    LET given == SelectSeq(log, LAMBDA c : c.constraints # None)
    IN  IF constraints # None THEN constraints
        ELSE IF given = << >> THEN DefaultConstraints
        ELSE given[Len(given)].constraints

\* the defaults kept for the nutrients the caller's mapping omits
EffectiveMerged(constraints) ==
    IF constraints = None THEN DefaultConstraints
    ELSE [n \in DOMAIN DefaultConstraints \cup DOMAIN constraints |->
            IF n \in DOMAIN constraints THEN constraints[n]
            ELSE DefaultConstraints[n]]

\* the mapping the function works with
EffectiveConstraints(constraints) ==
    IF constraints = None THEN DefaultConstraints ELSE constraints

\* the keys of a constraints mapping in iteration order
Items(constraints) ==
    SelectSeq(Nutrients, LAMBDA n : n \in DOMAIN constraints)

\* the quantities summed without their costs
ObjectiveUnpriced(ingredients, costs) ==
    [i \in Range(ingredients) |-> 1]

\* lpSum([dict_costs[i] * x[i] for i in ingredients])
Objective(ingredients, costs) ==
    [i \in Range(ingredients) |-> costs[i]]

\* the total weight bounded from below only
WeightAtLeast(ingredients, bar_weight) ==
    [coef |-> [i \in Range(ingredients) |-> 1], sense |-> ">=", rhs |-> bar_weight]

\* lpSum([x[i] for i in ingredients]) == bar_weight
WeightConstraint(ingredients, bar_weight) ==
    [coef |-> [i \in Range(ingredients) |-> 1], sense |-> "==", rhs |-> bar_weight]

\* every operator taken for "<="
SenseAlwaysLeq(op) == "<="

\* the two branches exchanged
SenseSwapped(op) == IF op = ">=" THEN "<=" ELSE ">="

\* the sense of the constraint added for operator op
Sense(op) == IF op = ">=" THEN ">=" ELSE "<="

\* nutrient_sum >= limit or nutrient_sum <= limit
NutrientConstraint(table, ingredients, nutrient, op, limit) ==
    [coef |-> [i \in Range(ingredients) |-> table.loc[i][nutrient]],
     sense |-> Sense(op), rhs |-> limit]

\* the nutrients of the mapping that get a constraint, in order
Applied(table, constraints) ==
    SelectSeq(Items(constraints), LAMBDA n : n \in table.columns)

\* the LpProblem at the call of model.solve()
BuildModel(table, costs, bar_weight, constraints) ==
    LET ingredients == table.index
        cons == EffectiveConstraints(constraints)
        app == Applied(table, cons)
    IN  [vars |-> ingredients,
         objective |-> Objective(ingredients, costs),
         constraints |->
            << WeightConstraint(ingredients, bar_weight) >>
            \o [k \in 1..Len(app) |->
                  NutrientConstraint(table, ingredients, app[k],
                                     cons[app[k]][1], cons[app[k]][2])]]

\* The outcome of a call: raised names the exception that ended it (""
\* when it returned); solved tells whether model.solve() was reached;
\* model, status, objective and x are what the returned objects hold.
optimize_recipe(table, costs, bar_weight, constraints) ==
    IF \E i \in Range(table.index) : i \notin DOMAIN costs
    THEN [raised |-> "KeyError", solved |-> FALSE, model |-> NoModel,
          status |-> LpStatusNotSolved, objective |-> Undefined,
          x |-> << >>, ingredients |-> table.index]
    ELSE LET lp == BuildModel(table, costs, bar_weight, constraints)
             sol == Solve(lp)
         IN  [raised |-> "", solved |-> TRUE, model |-> lp,
              status |-> sol.status, objective |-> sol.objective,
              x |-> sol.varValue, ingredients |-> table.index]

----------------------------------------------------------------------------
(* The steps of the program.                                               *)

protein_levels == << 15, 18, 20, 22, 25, 28, 30 >>

Ops == { "<=", ">=", "=" }

BarWeights == { -1, 0, 10 }

Limits == { 4, MaxLimit }

\* the constraints mappings of the direct calls
CallConstraints ==
    { None, << >> }
    \cup { [n \in {"Protein"} |-> << op, l >>] : op \in Ops, l \in Limits }
    \cup { [n \in {"Protein", "Fat"} |->
              IF n = "Protein" THEN << ">=", 4 >> ELSE << "<=", l >>] : l \in Limits }
    \cup { [n \in {"Protein", "Fibre"} |-> << ">=", 4 >>],
           [n \in {"Fibre"} |-> << "<=", 4 >>] }

NotShown == [status |-> "", reads |-> {}]

Init ==
    /\ nutrition \in NutritionTables
    /\ dict_costs \in CostMappings(nutrition.index)
    /\ pc = "start"
    /\ log = << >>
    /\ level = 0
    /\ results = << >>
    /\ shown = NotShown

\* one call of optimize_recipe, as the log records it
Call(bar_weight, constraints) ==
    [bar_weight |-> bar_weight, constraints |-> constraints,
     nutrition |-> nutrition, dict_costs |-> dict_costs,
     out |-> optimize_recipe(nutrition, dict_costs, bar_weight, constraints)]

\* the outcome of the latest call
ret == log[Len(log)].out

\* optimize_recipe(nutrition, dict_costs, bar_weight, constraints), called
\* directly
DirectCall(bar_weight, constraints) ==
    /\ pc = "start"
    /\ LET c == Call(bar_weight, constraints)
       IN  /\ log' = Append(log, c)
           /\ pc' = IF c.out.raised = "" THEN "returned" ELSE "raised"
    /\ UNCHANGED << nutrition, dict_costs, level, results, shown >>

\* main: model, x, ingredients = optimize_recipe(nutrition, dict_costs)
MainOptimize ==
    /\ pc = "start"
    /\ LET c == Call(default_bar_weight, None)
       IN  /\ log' = Append(log, c)
           /\ pc' = IF c.out.raised = "" THEN "display" ELSE "raised"
    /\ UNCHANGED << nutrition, dict_costs, level, results, shown >>

\* no early return
DisplayNoReturn(status) ==
    [status |-> LpStatus[status], reads |-> {"objective", "varValue"}]

\* what display_results prints as the status and which results of the solve
\* it reads, for a model with this status
Display(status) ==
    IF status # LpStatusOptimal
    THEN [status |-> LpStatus[status], reads |-> {}]
    ELSE [status |-> LpStatus[status], reads |-> {"objective", "varValue"}]

\* main: display_results(model, x, ingredients, nutrition, dict_costs)
display_results ==
    /\ pc = "display"
    /\ shown' = Display(ret.status)
    /\ pc' = "sweep"
    /\ level' = 1
    /\ UNCHANGED << nutrition, dict_costs, log, results >>

\* the constraints of the sweep for one protein level
SweepConstraints(protein) ==
    [n \in Range(Nutrients) |->
        CASE n = "Protein" -> << ">=", protein >>
          [] n = "Fat"     -> << "<=", 25 >>
          [] n = "Fibre"   -> << ">=", 5 >>
          [] n = "Salt"    -> << "<=", 3 >>
          [] OTHER         -> << "<=", 20 >>]

\* the row sensitivity_analysis prints for a call's outcome
SweepRow(protein, out) ==
    [protein |-> protein,
     cost |-> IF out.status = LpStatusOptimal THEN out.objective ELSE Inf,
     status |-> LpStatus[out.status],
     reads |-> IF out.status = LpStatusOptimal THEN {"objective"} ELSE {}]

\* the loop left at the first solve that is not Optimal
NextIndexBreak(k, out) ==
    IF out.status = LpStatusOptimal THEN k + 1 ELSE Len(protein_levels) + 1

\* where the loop goes after the body ran for the protein level at index k
NextIndex(k, out) == k + 1

\* one iteration of the loop of sensitivity_analysis
SweepStep ==
    /\ pc = "sweep"
    /\ level <= Len(protein_levels)
    /\ LET c == Call(default_bar_weight, SweepConstraints(protein_levels[level]))
       IN  /\ log' = Append(log, c)
           /\ IF c.out.raised = ""
              THEN /\ results' = Append(results, SweepRow(protein_levels[level], c.out))
                   /\ level' = NextIndex(level, c.out)
                   /\ pc' = "sweep"
              ELSE /\ pc' = "raised"
                   /\ UNCHANGED << level, results >>
    /\ UNCHANGED << nutrition, dict_costs, shown >>

\* the loop of sensitivity_analysis is over: it returns, and main with it
SweepEnd ==
    /\ pc = "sweep"
    /\ level > Len(protein_levels)
    /\ pc' = "done"
    /\ UNCHANGED << nutrition, dict_costs, log, level, results, shown >>

Next ==
    \/ \E bw \in BarWeights, cons \in CallConstraints : DirectCall(bw, cons)
    \/ MainOptimize
    \/ display_results
    \/ SweepStep
    \/ SweepEnd

Spec == Init /\ [][Next]_vars

----------------------------------------------------------------------------
(* Properties.                                                             *)

\* the latest call of optimize_recipe returned (it did not raise)
Returned == log # << >> /\ log[Len(log)].out.raised = ""

last == log[Len(log)]

\* the mapping the latest call worked with
lastConstraints ==
    IF last.constraints = None THEN DefaultConstraints ELSE last.constraints

\* the nutrients of the latest call's mapping that are columns of the table
lastColumns == { n \in DOMAIN lastConstraints : n \in nutrition.columns }

\* the aggregate content of nutrient n in the quantities x
Aggregate(x, n) ==
    RatSum([k \in 1..Len(nutrition.index) |->
              RatScale(x[nutrition.index[k]], nutrition.loc[nutrition.index[k]][n])])

\* the total of the quantities x
Total(x) == RatSum([k \in 1..Len(nutrition.index) |-> x[nutrition.index[k]]])

\* the value of the left-hand side of a constraint of the model at x
RowValue(row, x) ==
    RatSum([k \in 1..Len(nutrition.index) |->
              RatScale(x[nutrition.index[k]], row.coef[nutrition.index[k]])])

RatHolds(p, sense, n) ==
    CASE sense = ">=" -> RatLeq(RatInt(n), p)
      [] sense = "<=" -> RatLeq(p, RatInt(n))
      [] OTHER        -> p = RatInt(n)

\* the cost of an outcome, infinite when it is not Optimal
Cost(out) == IF out.status = LpStatusOptimal THEN out.objective ELSE Inf

Scenario ==
    /\ nutrition.index = << "a", "b" >>
    /\ nutrition.columns = {"Protein"}
    /\ nutrition.loc["a"]["Protein"] = 1
    /\ nutrition.loc["b"]["Protein"] = 0
    /\ dict_costs = [g \in {"a", "b"} |-> IF g = "a" THEN 2 ELSE 3]
    /\ pc = "returned"
    /\ last.bar_weight = 10
    /\ last.constraints = [n \in {"Protein"} |-> << ">=", 4 >>]

\* C2 as stated: the scenario is Optimal with objective 26 at a = 10, b = 0.
C2_Objective26 ==
    Scenario =>
        /\ ret.status = LpStatusOptimal
        /\ ret.objective = RatInt(26)
        /\ ret.x["a"] = RatInt(10)
        /\ ret.x["b"] = RatInt(0)

\* C2 (amended): the scenario is Optimal with objective 20 at a = 10, b = 0.
C2_Objective20 ==
    Scenario =>
        /\ ret.status = LpStatusOptimal
        /\ ret.objective = RatInt(20)
        /\ ret.x["a"] = RatInt(10)
        /\ ret.x["b"] = RatInt(0)

C2_Witness == Scenario /\ ret.status = LpStatusOptimal

\* the sense of the model's constraint for the caller's operator
SenseOf(op) == IF op = "=" THEN "==" ELSE op

\* the constraint of the latest call's model for nutrient n
ModelConstraint(n) ==
    ret.model.constraints[
        1 + CHOOSE k \in 1..Len(Applied(nutrition, lastConstraints)) :
                Applied(nutrition, lastConstraints)[k] = n]

\* C3: every constraint (op, limit) with op one of <=, >=, = is placed in the
\* model with exactly that operator; a constraint given with "=" holds as an
\* equality in every Optimal solution.
C3_OperatorKept ==
    Returned =>
        \A n \in lastColumns :
            /\ ModelConstraint(n).sense = SenseOf(lastConstraints[n][1])
            /\ (ret.status = LpStatusOptimal /\ lastConstraints[n][1] = "=") =>
                  Aggregate(ret.x, n) = RatInt(lastConstraints[n][2])

\* the latest call repeated with the limit of nutrient n set to l
WithLimit(n, l) ==
    optimize_recipe(nutrition, dict_costs, last.bar_weight,
                    [last.constraints EXCEPT ![n] = << @[1], l >>])

\* C4: tightening one constraint (raising a ">=" limit, lowering a "<="
\* limit) never decreases the optimal cost and loosening never increases it,
\* a result that is not Optimal counting as infinite cost; so the costs of
\* the sweep are non-decreasing in the protein level and every level after an
\* infeasible one is infeasible.
C4_Monotone ==
    /\ (pc = "returned" /\ last.constraints # None) =>
          \A n \in DOMAIN last.constraints : \A l \in Limits :
              LET op  == last.constraints[n][1]
                  lim == last.constraints[n][2]
                  alt == Cost(WithLimit(n, l))
              IN  /\ (op = ">=" /\ l > lim) => RatLeq(Cost(ret), alt)
                  /\ (op = ">=" /\ l < lim) => RatLeq(alt, Cost(ret))
                  /\ (op = "<=" /\ l < lim) => RatLeq(Cost(ret), alt)
                  /\ (op = "<=" /\ l > lim) => RatLeq(alt, Cost(ret))
    /\ \A j, k \in 1..Len(results) :
          j < k =>
              /\ RatLeq(results[j].cost, results[k].cost)
              /\ results[j].status = "Infeasible" => results[k].status = "Infeasible"

\* a sweep whose cost rises strictly from level to level while the levels
\* are feasible and that ends in infeasible levels
C4_Witness ==
    /\ pc = "done"
    /\ \A k \in 1..4 : RatLess(results[k].cost, results[k + 1].cost)
    /\ results[5].status = "Optimal"
    /\ results[6].status = "Infeasible"
    /\ results[7].status = "Infeasible"

\* a direct call with a ">=" limit that can be raised and a finite cost that
\* rises strictly with it
C4_WitnessDirect ==
    /\ pc = "returned"
    /\ last.constraints # None
    /\ \E n \in DOMAIN last.constraints : \E l \in Limits :
          /\ last.constraints[n][1] = ">="
          /\ l > last.constraints[n][2]
          /\ ret.status = LpStatusOptimal
          /\ WithLimit(n, l).status = LpStatusOptimal
          /\ RatLess(Cost(ret), Cost(WithLimit(n, l)))

\* C5: sensitivity_analysis calls the solver once per protein level, in
\* order, and records one (value, cost, status) row per level in that order;
\* a solve that is not Optimal is recorded with infinite cost and the sweep
\* goes on; the sweep ends after the last level (no call of the sweep
\* raises, the index of the next level is one past the rows printed and
\* within the list, and the sweep is done with exactly one row per level).
C5_SweepOrdered ==
    /\ pc = "raised" => level = 0
    /\ pc \in {"sweep", "done"} =>
        /\ level \in 1..(Len(protein_levels) + 1)
        /\ Len(results) = level - 1
        /\ Len(log) = level
        /\ \A k \in 1..Len(results) :
              /\ results[k].protein = protein_levels[k]
              /\ log[k + 1].bar_weight = default_bar_weight
              /\ log[k + 1].constraints = SweepConstraints(protein_levels[k])
              /\ log[k + 1].out.solved
              /\ results[k].status = LpStatus[log[k + 1].out.status]
              /\ results[k].cost = Cost(log[k + 1].out)
        /\ pc = "done" => Len(results) = Len(protein_levels)

\* a finished sweep in which a level was infeasible and the level after it
\* was solved and recorded all the same
C5_Witness ==
    /\ pc = "done"
    /\ Len(log) = 1 + Len(protein_levels)
    /\ results[5].status = "Optimal"
    /\ results[6].cost = Inf
    /\ results[7].protein = protein_levels[7]
    /\ log[8].out.solved

C7_NonOptimalUnread ==
    /\ \A k \in 1..Len(log) :
          (log[k].out.solved /\ log[k].out.status # LpStatusOptimal) =>
              log[k].out.raised = ""
    /\ shown # NotShown =>
          /\ shown.status = LpStatus[log[1].out.status]
          /\ log[1].out.status # LpStatusOptimal => shown.reads = {}
    /\ \A k \in 1..Len(results) :
          log[k + 1].out.status # LpStatusOptimal =>
              /\ results[k].reads = {}
              /\ results[k].cost = Inf
              /\ results[k].status = LpStatus[log[k + 1].out.status]
    /\ LpStatus[LpStatusInfeasible] # LpStatus[LpStatusUnbounded]

\* display_results has shown an infeasible model and the sweep has printed
\* an infeasible row
C7_Witness ==
    /\ shown.status = "Infeasible"
    /\ shown.reads = {}
    /\ Len(results) >= 1
    /\ results[Len(results)].status = "Infeasible"

\* C8: a model without variables is rejected before a solve starts: with no
\* ingredients optimize_recipe fails with EmptyModel and the solver is not
\* called; an ingredient without a cost is an error before the solve.
C8_EmptyModelRejected ==
    \A k \in 1..Len(log) :
        /\ nutrition.index = << >> =>
              (log[k].out.raised = "EmptyModel" /\ ~ log[k].out.solved)
        /\ (\E g \in Range(nutrition.index) : g \notin DOMAIN dict_costs) =>
              (log[k].out.raised # "" /\ ~ log[k].out.solved)

\* the least cost of an ingredient
MinCost ==
    CHOOSE m \in { dict_costs[g] : g \in Range(nutrition.index) } :
        \A g \in Range(nutrition.index) : m <= dict_costs[g]

\* C9: with at least one ingredient the solve is never Unbounded: its status
\* is Optimal or Infeasible; it is Infeasible for a negative bar_weight; with
\* an empty constraints mapping and bar_weight >= 0 it is Optimal with
\* objective bar_weight times the least ingredient cost.
C9_NeverUnbounded ==
    (Returned /\ nutrition.index # << >>) =>
        /\ ret.status \in {LpStatusOptimal, LpStatusInfeasible}
        /\ last.bar_weight < 0 => ret.status = LpStatusInfeasible
        /\ (last.constraints = << >> /\ last.bar_weight >= 0) =>
              /\ ret.status = LpStatusOptimal
              /\ ret.objective = RatInt(last.bar_weight * MinCost)

\* an Optimal solve without nutrient constraints where an ingredient has a
\* negative cost, and so a negative objective
C9_Witness ==
    /\ Returned
    /\ Len(nutrition.index) >= 2
    /\ last.constraints = << >>
    /\ last.bar_weight > 0
    /\ ret.status = LpStatusOptimal
    /\ ret.objective[1] < 0

\* the latest call's mapping without the nutrients that are no columns
lastKnown == [n \in lastColumns |-> lastConstraints[n]]

\* C10: a constraint on a nutrient that is no column of the table is dropped:
\* the call does not raise for it, the result is that of the call without
\* the entry, and the model holds the total-mass constraint plus one
\* constraint per entry whose nutrient is a column; a mapping that is passed
\* replaces the defaults (nothing is added for the nutrients it omits).
C10_UnknownDropped ==
    (log # << >> /\ \A g \in Range(nutrition.index) : g \in DOMAIN dict_costs) =>
        /\ ret.raised = ""
        /\ ret = optimize_recipe(nutrition, dict_costs, last.bar_weight, lastKnown)
        /\ Len(ret.model.constraints) = 1 + Cardinality(lastColumns)
        /\ ret.model.constraints[1] =
              WeightConstraint(nutrition.index, last.bar_weight)
        /\ last.constraints # None =>
              Len(ret.model.constraints) <= 1 + Cardinality(DOMAIN last.constraints)

\* a call with a mapping that names a column and a nutrient that is no
\* column, where the constraint on the column decides the result
C10_Witness ==
    /\ pc = "returned"
    /\ last.constraints # None
    /\ \E n \in DOMAIN last.constraints : n \notin nutrition.columns
    /\ \E n \in DOMAIN last.constraints : n \in nutrition.columns
    /\ Len(ret.model.constraints) = 2
    /\ ret.status = LpStatusInfeasible

====
